---- MODULE Spec2Model ----
(***************************************************************************)
(* A model of connpool: the fair counting Semaphore (lib/Semaphore.js),    *)
(* the RingBuffer (lib/RingBuffer.js) and the Pool (lib/Pool.js) that      *)
(* composes them.  Node's event loop is modelled as one atomic action per  *)
(* turn: a call made by user code, a timer firing, or the next             *)
(* setImmediate callback.                                                  *)
(***************************************************************************)
EXTENDS Integers, Sequences, FiniteSets, TLC

(* ------------------------------ bounds -------------------------------- *)

\* largest Semaphore total tried
MaxTotal == 2
\* number of acquire() calls in one run
MaxRequests == 3
\* number of acquire() calls in one run of the specification of long queues
MaxQueueRequests == 4
\* number of release() calls that are not paired with a held grant
MaxUnpaired == 1
\* the largest capacity a RingBuffer on its own is constructed with
MaxCapacity == 3
\* the writes made to a RingBuffer on its own
MaxWrites == 4
\* the exceptions thrown to the user of a RingBuffer on its own
MaxThrown == 3

(* ---------------------------- JS values ------------------------------- *)

\* JavaScript's Infinity: larger than every finite number of the model
Infinity == 999999999
\* a finite positive wait, as in the tests (500 ms)
FiniteTimeout == 500
\* an omitted (undefined) argument
Undefined == "undefined"
\* the callback's err argument on success
Null == "null"

\* the timeout argument left out of the call (undefined or null)
Omitted == -1

\* the values of options.timeout and of acquire's timeout after line 94
Timeouts == {0, FiniteTimeout, Infinity}
\* the timeout arguments user code passes to acquire
TimeoutArgs == Timeouts \cup {Omitted}
Contexts == {Undefined, "ctx1"}

\* JavaScript truthiness of a number, as used by !x and if (x)
Truthy(n) == n # 0

VARIABLES
    total,        \* Semaphore._total
    acquired,     \* Semaphore._acquired
    waitingList,  \* Semaphore._waitingList: callers in request order
    timers,       \* callers whose setTimeout is armed (not fired, not cleared)
    immediates,   \* the setImmediate queue (FIFO)
    invoked,      \* history: per request, the callback invocations so far
    dequeued,     \* history: per request, how it left the waiting list
    requests,     \* history: per request, the arguments of its acquire()
    holders,      \* requests whose grant callback ran and that have not released
    unpaired,     \* history: release() calls made without a held grant
    releases,     \* history: number of release() calls
    options,      \* the options the Pool was constructed with
    capacity,     \* Pool._capacity
    poolTimeout,  \* Pool._timeout
    buffer,       \* RingBuffer._buffer, indexed from 0
    head,         \* RingBuffer._head
    tail,         \* RingBuffer._tail
    count,        \* RingBuffer._count
    providerCalls, \* requests whose resourceProvider.getResource is in flight
    created,      \* number of resources the provider has produced
    delivered,    \* history: per request, what the Pool passed to its callback
    held,         \* resources handed out and not yet returned, with their holder
    thrown,       \* history: the exceptions thrown to callers
    doubled,      \* history: releaseResource calls with a resource that was
                  \* in the buffer already
    args,         \* the arguments of new RingBuffer(capacity) and of
                  \* new Semaphore(total) when the classes are used directly
    written,      \* history: the items written to a RingBuffer used directly
    readOut       \* history: the items its read() returned

semVars == <<total, acquired, waitingList, timers, immediates, invoked,
             dequeued>>
rbVars == <<buffer, head, tail, count>>
directVars == <<args, written, readOut>>
poolVars == <<options, capacity, poolTimeout, buffer, head, tail, count,
              providerCalls, created, delivered, held, thrown, doubled,
              directVars>>
vars == <<total, acquired, waitingList, timers, immediates, invoked, dequeued,
          requests, holders, unpaired, releases, options, capacity,
          poolTimeout, buffer, head, tail, count, providerCalls, created,
          delivered, held, thrown, doubled, args, written, readOut>>

Ids == 1..Len(requests)

\* ResourceNotAvailableError
ResourceNotAvailableError == "ResourceNotAvailableError"

(* ----------------------------- Semaphore ------------------------------ *)

\* The Semaphore object together with the event-loop queues it schedules on.
Sem == [total |-> total, acquired |-> acquired, waitingList |-> waitingList,
        timers |-> timers, immediates |-> immediates, invoked |-> invoked,
        dequeued |-> dequeued]

\* a mutant of available: one permit too many
availableOffByOne(s) == s.total - s.acquired + 1

\* get available()
available(s) == s.total - s.acquired

\* get waiting()
waiting(s) == Len(s.waitingList)

\* a mutant of callbackNextTick: the callback is invoked inside the call
callbackSameTick(s, callback, err, result) ==
    [s EXCEPT !.invoked[callback] = Append(@, [err |-> err, value |-> result])]

\* a mutant of callbackNextTick: callback(err), the result is not passed on
callbackDropsResult(s, callback, err, result) ==
    [s EXCEPT !.immediates =
        Append(@, [callback |-> callback, err |-> err,
                   value |-> IF err = Null THEN Undefined ELSE result])]

\* callbackNextTick(callback, err, result): setImmediate(() => callback(err, result)).
\* An error is the ResourceNotAvailableError whose context is `result`.
callbackNextTick(s, callback, err, result) ==
    [s EXCEPT !.immediates =
        Append(@, [callback |-> callback, err |-> err, value |-> result])]

\* _.findIndex(this._waitingList, c => c === caller), 1-based; 0 when absent
findIndex(list, id) ==
    IF \E i \in 1..Len(list) : list[i].id = id
    THEN CHOOSE i \in 1..Len(list) :
            list[i].id = id /\ \A j \in 1..(i - 1) : list[j].id # id
    ELSE 0

\* a mutant of splice: the items behind the removed one are dropped too
spliceToEnd(list, i) == SubSeq(list, 1, i - 1)

\* a mutant of splice: the i-th element is removed and the elements after
\* it are moved to the front of the list
spliceRotates(list, i) ==
    SubSeq(list, i + 1, Len(list)) \o SubSeq(list, 1, i - 1)

\* list.splice(i, 1): the list without its i-th element
splice(list, i) == SubSeq(list, 1, i - 1) \o SubSeq(list, i + 1, Len(list))

\* a mutant of timeoutOrInfinity: a timeout that was not passed is no wait
timeoutOrZero(timeout) == IF timeout = Omitted THEN 0 ELSE timeout

\* lines 76-94: a timeout that was not passed, or is null, becomes Infinity
timeoutOrInfinity(timeout) == IF timeout = Omitted THEN Infinity ELSE timeout

\* a mutant of AcquireGrant: the grant does not count as acquired
AcquireGrantFree(s) ==
    LET c  == Head(s.waitingList)
        s1 == [s EXCEPT !.waitingList = Tail(@),
                        !.dequeued[c.id] = Append(@, "grant"),
                        !.timers = @ \ {c.id}]
    IN callbackNextTick(s1, c.id, Null, c.context)

\* a mutant of AcquireGrant: the granted caller is not shifted off the list
AcquireGrantNoShift(s) ==
    LET c  == Head(s.waitingList)
        s1 == [s EXCEPT !.acquired = @ + 1,
                        !.dequeued[c.id] = Append(@, "grant"),
                        !.timers = @ \ {c.id}]
    IN callbackNextTick(s1, c.id, Null, c.context)

\* The grant inside acquire (lines 113-123): the front of the queue is granted.
AcquireGrant(s) ==
    LET c  == Head(s.waitingList)
        s1 == [s EXCEPT !.acquired = @ + 1,
                        !.waitingList = Tail(@),
                        !.dequeued[c.id] = Append(@, "grant"),
                        !.timers = @ \ {c.id}]
    IN callbackNextTick(s1, c.id, Null, c.context)

\* a mutant of enqueue: the caller is queued and nobody is granted
enqueueNoGrant(s, id, timeout, context) ==
    LET caller == [id |-> id, context |-> context]
        s1 == [s EXCEPT !.waitingList = Append(@, caller)]
    IN IF timeout # Infinity
       THEN [s1 EXCEPT !.timers = @ \cup {id}]
       ELSE s1

\* a mutant of enqueue: the front of the queue is granted although no permit
\* is free
enqueueGrantsAlways(s, id, timeout, context) ==
    LET caller == [id |-> id, context |-> context]
        s1 == [s EXCEPT !.waitingList = Append(@, caller)]
        s2 == AcquireGrant(s1)
    IN IF Head(s1.waitingList).id # id /\ timeout # Infinity
       THEN [s2 EXCEPT !.timers = @ \cup {id}]
       ELSE s2

\* lines 101-142 of acquire: the caller is queued, the front of the queue is
\* granted when a permit is free, and a caller left waiting gets its timer
enqueue(s, id, timeout, context) ==
    LET caller == [id |-> id, context |-> context]
        s1 == [s EXCEPT !.waitingList = Append(@, caller)]
        granted == Truthy(available(s1))
        s2 == IF granted THEN AcquireGrant(s1) ELSE s1
        needsTimer == IF granted
                      THEN Head(s1.waitingList).id # id
                      ELSE TRUE
    IN IF needsTimer /\ timeout # Infinity
       THEN [s2 EXCEPT !.timers = @ \cup {id}]
       ELSE s2

\* a mutant of acquire: a caller that is not willing to wait is queued too
acquireAlwaysQueues(s, id, timeoutArg, context) ==
    enqueue(s, id, timeoutOrInfinity(timeoutArg), context)

\* acquire(timeout, context, callback) by the request `id`
acquire(s, id, timeoutArg, context) ==
    LET timeout == timeoutOrInfinity(timeoutArg)
    IN IF ~Truthy(available(s)) /\ ~Truthy(timeout)
       THEN callbackNextTick(s, id, ResourceNotAvailableError, context)
       ELSE enqueue(s, id, timeout, context)

\* a mutant of timerFired: a timer that finds its caller gone from the
\* waiting list gives a permit back
timerFiredGivesBack(s, id) ==
    LET i  == findIndex(s.waitingList, id)
        s1 == [s EXCEPT !.timers = @ \ {id}]
    IN IF i >= 1
       THEN LET c == s.waitingList[i]
                s2 == [s1 EXCEPT !.waitingList = splice(@, i),
                                 !.dequeued[c.id] = Append(@, "timeout")]
            IN callbackNextTick(s2, c.id, ResourceNotAvailableError, c.context)
       ELSE [s1 EXCEPT !.acquired = @ - 1]

\* a mutant of timerFired: the caller stays in the waiting list
timerFiredNoSplice(s, id) ==
    LET i  == findIndex(s.waitingList, id)
        s1 == [s EXCEPT !.timers = @ \ {id}]
    IN IF i >= 1
       THEN LET c == s.waitingList[i]
                s2 == [s1 EXCEPT !.dequeued[c.id] = Append(@, "timeout")]
            IN callbackNextTick(s2, c.id, ResourceNotAvailableError, c.context)
       ELSE s1

\* a mutant of timerFired: the timer does not look the caller up in the
\* waiting list and calls back with the error whatever happened before
timerFiredNoLookup(s, id) ==
    LET i  == findIndex(s.waitingList, id)
        s1 == [s EXCEPT !.timers = @ \ {id},
                        !.waitingList = IF i >= 1 THEN splice(@, i) ELSE @,
                        !.dequeued[id] = IF i >= 1 THEN Append(@, "timeout")
                                         ELSE @]
    IN callbackNextTick(s1, id, ResourceNotAvailableError, Undefined)

\* a mutant of timerFired: the caller is removed from the waiting list and
\* its callback is never scheduled
timerFiredSilent(s, id) ==
    LET i  == findIndex(s.waitingList, id)
        s1 == [s EXCEPT !.timers = @ \ {id}]
    IN IF i >= 1
       THEN [s1 EXCEPT !.waitingList = splice(@, i),
                       !.dequeued[id] = Append(@, "timeout")]
       ELSE s1

\* the setTimeout callback of the caller `id` (lines 134-141)
timerFired(s, id) ==
    LET i  == findIndex(s.waitingList, id)
        s1 == [s EXCEPT !.timers = @ \ {id}]
    IN IF i >= 1
       THEN LET c == s.waitingList[i]
                s2 == [s1 EXCEPT !.waitingList = splice(@, i),
                                 !.dequeued[c.id] = Append(@, "timeout")]
            IN callbackNextTick(s2, c.id, ResourceNotAvailableError, c.context)
       ELSE s1

\* a mutant of processWaiting: the waiter that arrived last is granted first
RECURSIVE processWaitingLifo(_)
processWaitingLifo(s) ==
    IF Truthy(waiting(s)) /\ Truthy(available(s))
    THEN LET n == Len(s.waitingList)
             requestor == s.waitingList[n]
             s1 == [s EXCEPT !.acquired = @ + 1,
                             !.waitingList = SubSeq(@, 1, n - 1),
                             !.dequeued[requestor.id] = Append(@, "grant")]
         IN processWaitingLifo(
                callbackNextTick(s1, requestor.id, Null, requestor.context))
    ELSE s

\* the while loop of release() (lines 149-156)
RECURSIVE processWaiting(_)
processWaiting(s) ==
    IF Truthy(waiting(s)) /\ Truthy(available(s))
    THEN LET requestor == Head(s.waitingList)
             s1 == [s EXCEPT !.acquired = @ + 1,
                             !.waitingList = Tail(@),
                             !.dequeued[requestor.id] = Append(@, "grant")]
         IN processWaiting(
                callbackNextTick(s1, requestor.id, Null, requestor.context))
    ELSE s

\* a mutant of release: a release with nothing acquired is ignored
releaseChecked(s) ==
    IF s.acquired > 0
    THEN processWaiting([s EXCEPT !.acquired = @ - 1])
    ELSE s

\* a mutant of release: two permits are given back
releaseTwo(s) == processWaiting([s EXCEPT !.acquired = @ - 2])

\* a mutant of release: the count of acquired permits is not decremented
releaseNoDecrement(s) == processWaiting(s)

\* a mutant of release: the waiting list is not processed
releaseNoProcess(s) == [s EXCEPT !.acquired = @ - 1]

\* release()
release(s) == processWaiting([s EXCEPT !.acquired = @ - 1])

\* the model's variables take the state of the Semaphore s
SetSem(s) ==
    /\ acquired' = s.acquired
    /\ waitingList' = s.waitingList
    /\ timers' = s.timers
    /\ immediates' = s.immediates
    /\ invoked' = s.invoked
    /\ dequeued' = s.dequeued

(* ----------------------------- RingBuffer ----------------------------- *)

BufferIsFullError == "BufferIsFullError"
BufferIsEmptyError == "BufferIsEmptyError"

\* The RingBuffer object.
RB == [buffer |-> buffer, head |-> head, tail |-> tail, count |-> count]

\* the messages of the Error of the constructor and of the RangeError of
\* new Array(length)
RingBufferCapacityError == "capacity must be > 0 and < Infinity"
InvalidArrayLength == "Invalid array length"

\* A capacity argument is the JS number cap + tenths / 10, cap an integer
\* or Infinity and tenths in 0..9: 1.5 is cap 1 with tenths 5.
\* 2^32, one more than the largest length of an Array: above the integers
\* of TLC, it is stood for by the largest finite number of the model.
TwoToThe32 == 999999998

\* a mutant of RingBufferThrows: only an infinite capacity is refused
RingBufferThrowsOnlyInfinity(cap) == cap = Infinity

\* the test of the RingBuffer constructor, capacity < 1 || capacity ==
\* Infinity; cap + tenths / 10 is below 1 exactly when cap is
RingBufferThrows(cap) == cap < 1 \/ cap = Infinity

\* new Array(length) throws a RangeError unless length is an integer of
\* 0..2^32 - 1
ArrayThrows(length, tenths) ==
    tenths # 0 \/ length < 0 \/ length >= TwoToThe32

\* new RingBuffer(capacity): the Error thrown (Null when none is) and the
\* fields of the instance: new Array(capacity), head = tail = count = 0
RingBuffer(cap, tenths) ==
    IF RingBufferThrows(cap)
    THEN [error |-> RingBufferCapacityError, buffer |-> <<>>,
          head |-> 0, tail |-> 0, count |-> 0]
    ELSE IF ArrayThrows(cap, tenths)
    THEN [error |-> InvalidArrayLength, buffer |-> <<>>,
          head |-> 0, tail |-> 0, count |-> 0]
    ELSE [error |-> Null,
          buffer |-> [i \in 0..(cap - 1) |-> Undefined],
          head |-> 0, tail |-> 0, count |-> 0]

\* get capacity()
rbCapacity(rb) == Cardinality(DOMAIN rb.buffer)

\* a mutant of canWrite: a full buffer can be written
canWriteOffByOne(rb) == rb.count <= rbCapacity(rb)

\* get canWrite()
canWrite(rb) == rb.count < rbCapacity(rb)

\* a mutant of isFull: the buffer is never taken to be full
isFullNever(rb) == FALSE

\* get isFull()
isFull(rb) == ~canWrite(rb)

\* a mutant of canRead: the last item cannot be read
canReadOffByOne(rb) == rb.count > 1

\* get canRead()
canRead(rb) == rb.count > 0

\* get isEmpty()
isEmpty(rb) == ~canRead(rb)

\* a mutant of increment: the index wraps one position early
incrementWrapsEarly(index, length) ==
    IF index + 2 >= length THEN 0 ELSE index + 1

\* increment(index, length): the next index, with wrap around
increment(index, length) == IF index + 1 = length THEN 0 ELSE index + 1

\* a mutant of write: the write position is not advanced
writeNoAdvance(rb, data) ==
    [rb EXCEPT !.buffer[rb.tail] = data,
               !.count = @ + 1]

\* a mutant of write: the count is not incremented
writeNoCount(rb, data) ==
    [rb EXCEPT !.buffer[rb.tail] = data,
               !.tail = increment(@, rbCapacity(rb))]

\* write(data) when the buffer is not full
write(rb, data) ==
    [rb EXCEPT !.buffer[rb.tail] = data,
               !.tail = increment(@, rbCapacity(rb)),
               !.count = @ + 1]

\* a mutant of readData: the item at the write position is returned
readDataAtTail(rb) == rb.buffer[rb.tail]

\* the value read() returns when the buffer is not empty
readData(rb) == rb.buffer[rb.head]

\* a mutant of read: the count is not decremented
readNoCount(rb) == [rb EXCEPT !.head = increment(@, rbCapacity(rb))]

\* a mutant of read: the read position is not advanced
readNoAdvance(rb) == [rb EXCEPT !.count = @ - 1]

\* read() when the buffer is not empty: the buffer afterwards
read(rb) ==
    [rb EXCEPT !.head = increment(@, rbCapacity(rb)),
               !.count = @ - 1]

\* no RingBuffer exists
NoRingBuffer ==
    /\ buffer = <<>>
    /\ head = 0
    /\ tail = 0
    /\ count = 0

\* the model's variables take the state of the RingBuffer rb
SetRB(rb) ==
    /\ buffer' = rb.buffer
    /\ head' = rb.head
    /\ tail' = rb.tail
    /\ count' = rb.count

(* ------------------------------- Pool --------------------------------- *)

\* static get defaultCapacity()
defaultCapacity == 5

\* static get defaultTimeout()
defaultTimeout == 30000

\* the error a failing resource provider calls back with
ProviderError == "ProviderError"

\* an object that no getResource call of this pool handed out
ForeignResource == "foreign"

\* the n-th resource the provider produces
Resource(n) == ToString(n)

\* a || b for numbers
OrElse(a, b) == IF Truthy(a) THEN a ELSE b

\* capacity > 0 && capacity < Infinity
IsBounded == capacity > 0 /\ capacity < Infinity

\* no RingBuffer or Semaphore is constructed and used directly
NoDirectUse ==
    /\ args = [capacity |-> 0, tenths |-> 0, total |-> 0]
    /\ written = <<>>
    /\ readOut = <<>>

\* no Pool exists (the Semaphore is used on its own)
NoPool ==
    /\ NoDirectUse
    /\ options = [capacity |-> 0, timeout |-> 0]
    /\ doubled = 0
    /\ capacity = 0
    /\ poolTimeout = 0
    /\ NoRingBuffer
    /\ providerCalls = {}
    /\ created = 0
    /\ delivered = <<>>
    /\ held = {}
    /\ thrown = <<>>

(* ------------------------------ actions ------------------------------- *)

\* new Semaphore(total)
Init ==
    /\ total \in 1..MaxTotal
    /\ acquired = 0
    /\ waitingList = <<>>
    /\ timers = {}
    /\ immediates = <<>>
    /\ invoked = <<>>
    /\ dequeued = <<>>
    /\ requests = <<>>
    /\ holders = {}
    /\ unpaired = 0
    /\ releases = 0
    /\ NoPool

\* user code calls sem.acquire(timeout, context, callback), at most `max`
\* times in one run
AcquireWithin(max, timeoutArg, context) ==
    /\ Len(requests) < max
    /\ LET id == Len(requests) + 1
           timeout == timeoutOrInfinity(timeoutArg)
           s0 == [Sem EXCEPT !.invoked = Append(@, <<>>),
                             !.dequeued = Append(@, <<>>)]
       IN /\ requests' = Append(requests,
                [timeout |-> timeout, context |-> context,
                 avail |-> available(Sem)])
          /\ SetSem(acquire(s0, id, timeoutArg, context))
    /\ UNCHANGED <<total, holders, unpaired, releases, poolVars>>

\* user code calls sem.acquire(timeout, context, callback)
Acquire(timeoutArg, context) == AcquireWithin(MaxRequests, timeoutArg, context)

\* a holder of a grant calls sem.release()
Release(id) ==
    /\ id \in holders
    /\ holders' = holders \ {id}
    /\ releases' = releases + 1
    /\ SetSem(release(Sem))
    /\ UNCHANGED <<total, requests, unpaired, poolVars>>

\* user code calls sem.release() without holding a grant
UnpairedRelease ==
    /\ unpaired < MaxUnpaired
    /\ unpaired' = unpaired + 1
    /\ releases' = releases + 1
    /\ SetSem(release(Sem))
    /\ UNCHANGED <<total, requests, holders, poolVars>>

\* the timer of the caller `id` expires
TimerFire(id) ==
    /\ id \in timers
    /\ SetSem(timerFired(Sem, id))
    /\ UNCHANGED <<total, requests, holders, unpaired, releases, poolVars>>

\* the event loop runs the next setImmediate callback: the user's callback
RunImmediate ==
    /\ immediates # <<>>
    /\ LET e == Head(immediates)
       IN /\ immediates' = Tail(immediates)
          /\ invoked' = [invoked EXCEPT ![e.callback] =
                            Append(@, [err |-> e.err, value |-> e.value])]
          /\ holders' = IF e.err = Null THEN holders \cup {e.callback}
                        ELSE holders
    /\ UNCHANGED <<total, acquired, waitingList, timers, dequeued, requests,
                   unpaired, releases, poolVars>>

Next ==
    \/ \E t \in TimeoutArgs, c \in Contexts : Acquire(t, c)
    \/ \E id \in holders : Release(id)
    \/ UnpairedRelease
    \/ \E id \in timers : TimerFire(id)
    \/ RunImmediate

Spec == Init /\ [][Next]_vars

\* The scheduling of Node: a callback passed to setImmediate runs and a
\* timer set with a finite delay expires.  Nothing is assumed of the user's
\* code: a holder may keep its permit for ever.
FairSpec ==
    /\ Spec
    /\ WF_vars(RunImmediate)
    /\ \A id \in 1..MaxRequests : WF_vars(TimerFire(id))

\* The Semaphore with one more acquire() call in a run, so that two callers
\* are left in the waiting list when a third caller leaves it.
QueueNext ==
    \/ \E t \in TimeoutArgs, c \in Contexts :
            AcquireWithin(MaxQueueRequests, t, c)
    \/ \E id \in holders : Release(id)
    \/ UnpairedRelease
    \/ \E id \in timers : TimerFire(id)
    \/ RunImmediate

QueueSpec == Init /\ [][QueueNext]_vars

(* --------------------------- Pool actions ----------------------------- *)

\* new Pool({capacity, timeout, resourceProvider}): constructor and _initBuffer
PoolInit ==
    /\ options \in [capacity : (0..MaxTotal) \cup {Infinity},
                     timeout : Timeouts]
    /\ capacity = OrElse(options.capacity, defaultCapacity)
    /\ poolTimeout = OrElse(options.timeout, defaultTimeout)
    /\ doubled = 0
    /\ NoDirectUse
    /\ total = IF IsBounded THEN capacity ELSE 0
    /\ acquired = 0
    /\ waitingList = <<>>
    /\ timers = {}
    /\ immediates = <<>>
    /\ invoked = <<>>
    /\ dequeued = <<>>
    /\ requests = <<>>
    /\ holders = {}
    /\ unpaired = 0
    /\ releases = 0
    /\ IF IsBounded
       THEN /\ buffer = RingBuffer(capacity, 0).buffer
            /\ head = 0
            /\ tail = 0
            /\ count = 0
       ELSE NoRingBuffer
    /\ providerCalls = {}
    /\ created = 0
    /\ delivered = <<>>
    /\ held = {}
    /\ thrown = <<>>

\* the Pool's callback is called with (err, resource) for the request `id`
Deliver(id, err, resource) ==
    /\ delivered' = [delivered EXCEPT ![id] =
                        Append(@, [err |-> err, value |-> resource])]
    /\ held' = IF err = Null
               THEN held \cup {[request |-> id, resource |-> resource]}
               ELSE held

\* pool.getResource(callback): _acquire, or the provider in a later turn
GetResource ==
    /\ Len(requests) < MaxRequests
    /\ LET id == Len(requests) + 1
           s0 == [Sem EXCEPT !.invoked = Append(@, <<>>),
                             !.dequeued = Append(@, <<>>)]
       IN /\ requests' = Append(requests,
                [timeout |-> poolTimeout, context |-> Undefined,
                 avail |-> available(Sem)])
          /\ delivered' = Append(delivered, <<>>)
          /\ IF IsBounded
             THEN SetSem(acquire(s0, id, poolTimeout, Undefined))
             ELSE SetSem(callbackNextTick(s0, id, Null, Undefined))
    /\ UNCHANGED <<total, holders, unpaired, releases, options, capacity,
                   poolTimeout, rbVars, providerCalls, created, held, thrown,
                   doubled, directVars>>

\* a mutant of failed: the error of the semaphore is not looked at
failedIgnored(err) == FALSE

\* if (err) in the function _acquire passed to semaphore.acquire
failed(err) == err # Null

\* the next setImmediate callback: the function _acquire passed to
\* semaphore.acquire, or the provider call of a pool without a buffer
PoolRunImmediate ==
    /\ immediates # <<>>
    /\ LET e == Head(immediates)
           id == e.callback
       IN /\ immediates' = Tail(immediates)
          /\ invoked' = [invoked EXCEPT ![id] =
                            Append(@, [err |-> e.err, value |-> e.value])]
          /\ IF ~IsBounded
             THEN /\ providerCalls' = providerCalls \cup {id}
                  /\ UNCHANGED <<rbVars, delivered, held>>
             ELSE IF failed(e.err)
             THEN /\ Deliver(id, e.err, Undefined)
                  /\ UNCHANGED <<rbVars, providerCalls>>
             ELSE IF canRead(RB)
             THEN /\ SetRB(read(RB))
                  /\ Deliver(id, Null, readData(RB))
                  /\ UNCHANGED providerCalls
             ELSE /\ providerCalls' = providerCalls \cup {id}
                  /\ UNCHANGED <<rbVars, delivered, held>>
    /\ UNCHANGED <<total, acquired, waitingList, timers, dequeued, requests,
                   holders, unpaired, releases, options, capacity,
                   poolTimeout, created, thrown, doubled, directVars>>

\* a mutant of ProviderReturn: the permit is released when the provider fails
ProviderReturnReleases(id, ok) ==
    /\ id \in providerCalls
    /\ providerCalls' = providerCalls \ {id}
    /\ created' = IF ok THEN created + 1 ELSE created
    /\ IF ok THEN /\ Deliver(id, Null, Resource(created + 1))
                  /\ UNCHANGED semVars
             ELSE /\ Deliver(id, ProviderError, Undefined)
                  /\ SetSem(release(Sem))
                  /\ UNCHANGED total
    /\ UNCHANGED <<requests, holders, unpaired, releases, options,
                   capacity, poolTimeout, rbVars, thrown, doubled,
                   directVars>>

\* the resource provider calls back: with a new resource, or with its error
ProviderReturn(id, ok) ==
    /\ id \in providerCalls
    /\ providerCalls' = providerCalls \ {id}
    /\ created' = IF ok THEN created + 1 ELSE created
    /\ IF ok THEN Deliver(id, Null, Resource(created + 1))
             ELSE Deliver(id, ProviderError, Undefined)
    /\ UNCHANGED <<semVars, requests, holders, unpaired, releases, options,
                   capacity, poolTimeout, rbVars, thrown, doubled,
                   directVars>>

\* releaseResource(resource) and _release: write, then semaphore.release();
\* a BufferIsFullError thrown by write leaves through releaseResource
releaseResource(resource) ==
    IF ~IsBounded
    THEN UNCHANGED <<semVars, rbVars, thrown, releases>>
    ELSE IF isFull(RB)
    THEN /\ thrown' = Append(thrown, BufferIsFullError)
         /\ UNCHANGED <<semVars, rbVars, releases>>
    ELSE /\ SetRB(write(RB, resource))
         /\ SetSem(release(Sem))
         /\ releases' = releases + 1
         /\ UNCHANGED <<total, thrown>>

\* the holder of a resource returns it: pool.releaseResource(resource)
ReleaseResource(h) ==
    /\ h \in held
    /\ held' = held \ {h}
    /\ releaseResource(h.resource)
    /\ UNCHANGED <<requests, holders, unpaired, options, capacity,
                   poolTimeout, providerCalls, created, delivered, doubled,
                   directVars>>

\* the resources user code can pass to releaseResource without holding them:
\* a foreign object, or a resource it has returned already
NotHeld ==
    ({ForeignResource} \cup {Resource(n) : n \in 1..created})
        \ {h.resource : h \in held}

\* the indices of the buffer that hold an item to be read
Live == IF count = 0 THEN {}
        ELSE {i \in DOMAIN buffer :
                IF head + count <= rbCapacity(RB)
                THEN head <= i /\ i < head + count
                ELSE i >= head \/ i < head + count - rbCapacity(RB)}

\* the resource is one of the items of the buffer
InBuffer(resource) == \E i \in Live : buffer[i] = resource

\* user code calls pool.releaseResource with a resource it does not hold
ReleaseNotHeld(resource) ==
    /\ unpaired < MaxUnpaired
    /\ unpaired' = unpaired + 1
    /\ doubled' = IF InBuffer(resource) THEN doubled + 1 ELSE doubled
    /\ releaseResource(resource)
    /\ UNCHANGED <<requests, holders, options, capacity, poolTimeout,
                   providerCalls, created, delivered, held, directVars>>

PoolNext ==
    \/ GetResource
    \/ PoolRunImmediate
    \/ \E id \in timers : TimerFire(id)
    \/ \E id \in providerCalls, ok \in BOOLEAN : ProviderReturn(id, ok)
    \/ \E h \in held : ReleaseResource(h)
    \/ \E r \in NotHeld : ReleaseNotHeld(r)

PoolSpec == PoolInit /\ [][PoolNext]_vars

(* ------------- the RingBuffer and the constructors, used directly ------ *)

\* the message of the Error the Semaphore constructor throws
SemaphoreTotalError == "Semaphore must be constructed with total > 0"

\* the items written, and the arguments the constructors are called with
Items == {"a", "b"}
CapacityArgs == ((-1)..MaxCapacity) \cup {TwoToThe32, Infinity}
\* the tenths of a capacity argument: a whole number, or a half more
TenthsArgs == {0, 5}
TotalArgs == (-1)..MaxTotal

\* the test of the Semaphore constructor
SemaphoreThrows(t) == t < 1

\* the getter available of the RingBuffer
rbAvailable(rb) == rbCapacity(rb) - rb.count

\* the items of the RingBuffer that are to be read, in the order of reading
Contents(rb) ==
    [k \in 1..rb.count |->
        rb.buffer[(rb.head + k - 1) % rbCapacity(rb)]]

\* new RingBuffer(args.capacity + args.tenths / 10) returned an instance
Constructed == RingBuffer(args.capacity, args.tenths).error = Null

\* new RingBuffer(args.capacity) and new Semaphore(args.total), each in a
\* try block of its own; a constructor that throws leaves no instance
DirectInit ==
    /\ args \in {a \in [capacity : CapacityArgs, tenths : TenthsArgs,
                         total : TotalArgs] :
                    a.capacity \in {TwoToThe32, Infinity} => a.tenths = 0}
    /\ buffer = RingBuffer(args.capacity, args.tenths).buffer
    /\ head = RingBuffer(args.capacity, args.tenths).head
    /\ tail = RingBuffer(args.capacity, args.tenths).tail
    /\ count = RingBuffer(args.capacity, args.tenths).count
    /\ total = IF SemaphoreThrows(args.total) THEN 0 ELSE args.total
    /\ acquired = 0
    /\ waitingList = <<>>
    /\ thrown = (IF RingBuffer(args.capacity, args.tenths).error # Null
                 THEN <<RingBuffer(args.capacity, args.tenths).error>>
                 ELSE <<>>)
                \o (IF SemaphoreThrows(args.total)
                    THEN <<SemaphoreTotalError>> ELSE <<>>)
    /\ written = <<>>
    /\ readOut = <<>>
    /\ timers = {}
    /\ immediates = <<>>
    /\ invoked = <<>>
    /\ dequeued = <<>>
    /\ requests = <<>>
    /\ holders = {}
    /\ unpaired = 0
    /\ releases = 0
    /\ options = [capacity |-> 0, timeout |-> 0]
    /\ doubled = 0
    /\ capacity = 0
    /\ poolTimeout = 0
    /\ providerCalls = {}
    /\ created = 0
    /\ delivered = <<>>
    /\ held = {}

\* user code calls rb.write(data) on the RingBuffer it constructed
Write(data) ==
    /\ Constructed
    /\ IF isFull(RB)
       THEN /\ Len(thrown) < MaxThrown
            /\ thrown' = Append(thrown, BufferIsFullError)
            /\ UNCHANGED <<rbVars, written>>
       ELSE /\ Len(written) < MaxWrites
            /\ SetRB(write(RB, data))
            /\ written' = Append(written, data)
            /\ UNCHANGED thrown
    /\ UNCHANGED <<semVars, requests, holders, unpaired, releases, options,
                   capacity, poolTimeout, providerCalls, created, delivered,
                   held, doubled, args, readOut>>

\* user code calls rb.read()
Read ==
    /\ Constructed
    /\ IF isEmpty(RB)
       THEN /\ Len(thrown) < MaxThrown
            /\ thrown' = Append(thrown, BufferIsEmptyError)
            /\ UNCHANGED <<rbVars, readOut>>
       ELSE /\ SetRB(read(RB))
            /\ readOut' = Append(readOut, readData(RB))
            /\ UNCHANGED thrown
    /\ UNCHANGED <<semVars, requests, holders, unpaired, releases, options,
                   capacity, poolTimeout, providerCalls, created, delivered,
                   held, doubled, args, written>>

DirectNext ==
    \/ \E data \in Items : Write(data)
    \/ Read

DirectSpec == DirectInit /\ [][DirectNext]_vars

(* ---------------------------- the claims ------------------------------ *)

\* the requests that are in the waiting list
Waiting == {waitingList[i].id : i \in 1..Len(waitingList)}

\* the request was pushed onto the waiting list at some time
Queued(id) == id \in Waiting \/ dequeued[id] # <<>>

\* the request was granted a permit
Granted(id) == \E i \in 1..Len(dequeued[id]) : dequeued[id][i] = "grant"

\* the request left the waiting list because its timer fired
TimedOut(id) == \E i \in 1..Len(dequeued[id]) : dequeued[id][i] = "timeout"

\* the callback of the request has been invoked with a grant
GrantCalled(id) == \E i \in 1..Len(invoked[id]) : invoked[id][i].err = Null

\* the callback of the request has been invoked with the error
FailCalled(id) ==
    \E i \in 1..Len(invoked[id]) :
        invoked[id][i].err = ResourceNotAvailableError

\* the entries of the setImmediate queue that will call the request's callback
Pending(id) == {i \in 1..Len(immediates) : immediates[i].callback = id}

\* C1 as stated: in every reachable state of the Semaphore, whatever the
\* sequence of acquire, release and timer expiry, 0 <= acquired <= total and
\* available = total - acquired.
C1_AcquiredInRange ==
    /\ 0 <= acquired
    /\ acquired <= total
    /\ available(Sem) = total - acquired

\* C1 amended: as long as every release() was made by the holder of a grant
\* that had not been released yet, 0 <= acquired <= total and
\* available = total - acquired.
C1_AcquiredInRangeWhenPaired ==
    unpaired = 0 =>
        /\ 0 <= acquired
        /\ acquired <= total
        /\ available(Sem) = total - acquired

\* C1 witness: after acquires, a timer expiry and a paired release that
\* granted a waiter, every permit is taken again.
C1_Witness ==
    /\ unpaired = 0
    /\ releases > 0
    /\ acquired = total
    /\ \E id \in Ids : TimedOut(id)
    /\ \E id \in Ids : requests[id].avail = 0 /\ Granted(id)

\* C2 as stated: when A was submitted before B and both were placed on the
\* waiting list, B is granted only if A is granted, and B's grant callback
\* has run only if A's has (here with every release() paired with a grant).
C2_EarlierGrantedFirst ==
    \A a \in Ids, b \in Ids :
        (unpaired = 0 /\ a < b /\ Queued(a) /\ Queued(b)) =>
            /\ Granted(b) => Granted(a)
            /\ GrantCalled(b) => GrantCalled(a)

\* C2 amended: when A was submitted before B and B is granted, A is no
\* longer in the waiting list (A was granted earlier, or its timeout expired
\* earlier), and if A was granted too, B's grant callback has run only if
\* A's has: a later arrival is never granted while an earlier one is queued.
C2_Fifo ==
    \A a \in Ids, b \in Ids :
        (a < b /\ Granted(b)) =>
            /\ a \notin Waiting
            /\ (Granted(a) /\ GrantCalled(b)) => GrantCalled(a)

\* C2 witness: two requests that both waited with no permit free have both
\* been granted and called back.
C2_Witness ==
    \E a \in Ids, b \in Ids :
        /\ a < b
        /\ requests[a].avail = 0 /\ requests[b].avail = 0
        /\ GrantCalled(a) /\ GrantCalled(b)

\* C3: every acquire completes at most once and by one path: its callback is
\* called or scheduled at most once in all (a grant or the error, never
\* both), it leaves the waiting list at most once, and the callback it gets
\* is the one of the way it left.
C3_CompletesOnce ==
    \A id \in Ids :
        /\ Len(invoked[id]) + Cardinality(Pending(id)) <= 1
        /\ Len(dequeued[id]) <= 1
        /\ GrantCalled(id) => Granted(id)
        /\ FailCalled(id) => ~Granted(id)
        /\ id \in Waiting => (dequeued[id] = <<>> /\ invoked[id] = <<>>)

\* C3 witness: a waiter with a timer was granted by a release, got its
\* grant, and its timer has fired since.
C3_Witness ==
    \E id \in Ids :
        /\ requests[id].timeout = FiniteTimeout
        /\ requests[id].avail = 0
        /\ Granted(id)
        /\ id \notin timers
        /\ Len(invoked[id]) = 1

\* C4: an acquire with timeout 0 made while available = 0 schedules the
\* ResourceNotAvailableError for its caller, never enters the waiting list
\* and leaves acquired unchanged; made while a permit is free it is granted.
C4_ZeroWait ==
    [][\A c \in Contexts :
        Acquire(0, c) =>
            LET id == Len(requests) + 1
                last == immediates'[Len(immediates')]
            IN /\ Len(immediates') = Len(immediates) + 1
               /\ last.callback = id
               /\ waitingList' = waitingList
               /\ IF available(Sem) = 0
                  THEN /\ last.err = ResourceNotAvailableError
                       /\ acquired' = acquired
                       /\ dequeued'[id] = <<>>
                  ELSE /\ last.err = Null
                       /\ acquired' = acquired + 1
                       /\ dequeued'[id] = <<"grant">>]_vars

\* C4 witness: a zero-wait acquire made with no permit free was called back
\* with the error.
C4_Witness ==
    \E id \in Ids :
        /\ requests[id].timeout = 0
        /\ requests[id].avail = 0
        /\ FailCalled(id)

\* the entries of the setImmediate queue that carry a grant
PendingGrants == {i \in 1..Len(immediates) : immediates[i].err = Null}

\* C5: an acquire with the timeout left out or Infinity, made while
\* available = 0, is queued (waiting grows by one, no timer, no callback
\* scheduled); such a request never gets the error, and it is granted only
\* in a step that is a release() call.
C5_UnboundedWait ==
    [][/\ \A c \in Contexts, t \in {Omitted, Infinity} :
            (Acquire(t, c) /\ available(Sem) = 0) =>
                LET id == Len(requests) + 1
                IN /\ Len(waitingList') = Len(waitingList) + 1
                   /\ id \in Waiting'
                   /\ id \notin timers'
                   /\ immediates' = immediates
                   /\ requests'[id].timeout = Infinity
       /\ \A id \in Ids' :
            (requests'[id].timeout = Infinity /\ requests'[id].avail = 0) =>
                /\ ~FailCalled(id)'
                /\ \A i \in Pending(id)' : immediates'[i].err = Null
                /\ ~TimedOut(id)'
                /\ id \notin timers'
                /\ Granted(id)' =>
                      /\ id \in Ids
                      /\ Granted(id) \/ releases' = releases + 1]_vars

\* C5 witness: a request that waits without bound, made with no permit
\* free, was granted by a release and called back.
C5_Witness ==
    \E id \in Ids :
        /\ requests[id].timeout = Infinity
        /\ requests[id].avail = 0
        /\ GrantCalled(id)
        /\ releases > 0

\* C6: when the timer of a queued waiter fires, the waiter is removed from
\* the waiting list, acquired is unchanged and the
\* ResourceNotAvailableError is scheduled for it; from then on it is not in
\* the waiting list (so not when its callback runs either), no release
\* grants it, and the only callback it gets is the error.
C6_Timeout ==
    [][/\ \A id \in timers :
            (TimerFire(id) /\ id \in Waiting) =>
                LET last == immediates'[Len(immediates')]
                IN /\ id \notin Waiting'
                   /\ Len(waitingList') = Len(waitingList) - 1
                   /\ acquired' = acquired
                   /\ Len(immediates') = Len(immediates) + 1
                   /\ last.callback = id
                   /\ last.err = ResourceNotAvailableError
                   /\ TimedOut(id)'
       /\ \A id \in Ids' :
            TimedOut(id)' =>
                /\ id \notin Waiting'
                /\ ~Granted(id)'
                /\ ~GrantCalled(id)'
                /\ \A i \in Pending(id)' :
                        immediates'[i].err = ResourceNotAvailableError
                /\ FailCalled(id)' \/ Pending(id)' # {}
                /\ requests'[id].timeout \notin {0, Infinity}
                /\ requests'[id].avail = 0]_vars

\* C6 witness: a waiter timed out and was called back with the error, and
\* the release that came afterwards left the permit free.
C6_Witness ==
    \E id \in Ids :
        /\ TimedOut(id)
        /\ FailCalled(id)
        /\ unpaired = 0
        /\ releases > 0
        /\ available(Sem) > 0

\* C7: every callback scheduled or invoked for a request, the grant as well
\* as the error, carries the context passed with that request's acquire.
C7_ContextRoundTrip ==
    /\ \A i \in 1..Len(immediates) :
            immediates[i].value = requests[immediates[i].callback].context
    /\ \A id \in Ids : \A i \in 1..Len(invoked[id]) :
            invoked[id][i].value = requests[id].context

\* C7 witness: of two waiters with different contexts, one was granted by
\* a release and one got the error, each called back.
C7_Witness ==
    \E a \in Ids, b \in Ids :
        /\ requests[a].context # requests[b].context
        /\ requests[a].avail = 0 /\ requests[b].avail = 0
        /\ GrantCalled(a) /\ invoked[a][1].value = requests[a].context
        /\ FailCalled(b) /\ invoked[b][1].value = requests[b].context

\* C8: a callback is invoked only in a turn that runs the entry at the front
\* of the setImmediate queue, and that turn is no acquire(), release() or
\* timer: the call that scheduled the callback has returned before.
C8_CallbacksNextTick ==
    [][\A id \in Ids' :
        IF id \in Ids
        THEN invoked'[id] # invoked[id] =>
                /\ immediates # <<>>
                /\ Head(immediates).callback = id
                /\ immediates' = Tail(immediates)
                /\ acquired' = acquired
                /\ waitingList' = waitingList
                /\ timers' = timers
                /\ requests' = requests
                /\ releases' = releases
        ELSE invoked'[id] = <<>>]_vars

\* C8 witness: a zero-wait failure, a timeout failure and a grant have each
\* been delivered to their callbacks.
C8_Witness ==
    /\ \E id \in Ids : GrantCalled(id)
    /\ \E id \in Ids : requests[id].timeout = 0 /\ FailCalled(id)
    /\ \E id \in Ids : TimedOut(id) /\ FailCalled(id)

\* C9: when a callback of an acquire runs, the request is not in the waiting
\* list; when it is a grant, the request has been taken off the list by a
\* grant and acquired counts its permit: acquired is the number of grants
\* called back and not released plus the grants still to be called back,
\* less the unpaired releases.
C9_StateVisibleAtCallback ==
    [][\A id \in Ids :
        invoked'[id] # invoked[id] =>
            LET e == invoked'[id][Len(invoked'[id])]
            IN /\ id \notin Waiting
               /\ id \notin Waiting'
               /\ IF e.err = Null
                  THEN /\ Granted(id)
                       /\ id \in holders'
                       /\ acquired' + unpaired' =
                            Cardinality(holders') + Cardinality(PendingGrants')
                       /\ unpaired' = 0 => acquired' >= 1
                  ELSE ~Granted(id)]_vars

\* C9 witness: a waiter granted by a release has been called back and holds
\* its permit while every permit is taken, and a waiter that timed out has
\* been called back.
C9_Witness ==
    /\ acquired = total
    /\ \E id \in holders : requests[id].avail = 0 /\ GrantCalled(id)
    /\ \E id \in Ids : TimedOut(id) /\ FailCalled(id)

\* C10 as stated: in a bounded Pool, in every reachable state, the number of
\* resources handed out and not yet returned plus buffer.count is at most
\* capacity.
C10_OutstandingPlusCount ==
    IsBounded => Cardinality(held) + count <= capacity

\* C10 amended: in a bounded Pool to which only resources obtained from
\* getResource have been released, each at most once, the number of
\* resources handed out and not yet returned plus buffer.count is at most
\* capacity (and so is that number plus the provider calls in flight).
C10_OutstandingPlusCountWhenHeld ==
    (IsBounded /\ unpaired = 0) =>
        Cardinality(held) + count + Cardinality(providerCalls) <= capacity

\* C10 witness: with correct use, one resource is out, another is back in
\* the buffer, and together they fill the pool's capacity.
C10_Witness ==
    /\ IsBounded
    /\ unpaired = 0
    /\ held # {}
    /\ count > 0
    /\ Cardinality(held) + count = capacity

\* the provider's error was passed to the callback of the request
ProviderFailed(id) ==
    \E i \in 1..Len(delivered[id]) : delivered[id][i].err = ProviderError

\* a resource was passed to the callback of the request
Got(id) == \E i \in 1..Len(delivered[id]) : delivered[id][i].err = Null

\* the number of calls of resourceProvider.getResource so far
Invocations ==
    created + Cardinality(providerCalls)
            + Cardinality({id \in Ids : ProviderFailed(id)})

\* C11: the buffer of a bounded Pool is empty at construction; the provider
\* is called only by the grant callback of a request that finds the buffer
\* empty; and as long as no resource was released while it was in the
\* buffer already, the provider has been called at most capacity times, so
\* every further grant is served from the buffer.
C11_LazyPopulation ==
    /\ IsBounded => count = 0
    /\ [][IsBounded =>
            /\ \A id \in Ids' :
                    id \in providerCalls' \ providerCalls =>
                        /\ immediates # <<>>
                        /\ Head(immediates).callback = id
                        /\ Head(immediates).err = Null
                        /\ Granted(id)
                        /\ count = 0
            /\ doubled' = 0 => Invocations' <= capacity
            /\ (requests' = <<>> /\ releases' = 0) => count' = 0]_vars

\* C11 witness: with correct use the provider has been called capacity
\* times and more requests than that have got a resource.
C11_Witness ==
    /\ IsBounded
    /\ unpaired = 0
    /\ Invocations = capacity
    /\ created = capacity
    /\ Cardinality({id \in Ids : Got(id)}) > capacity

\* the not-available failure was passed to the callback of the request
NotAvailable(id) ==
    \E i \in 1..Len(delivered[id]) :
        delivered[id][i].err = ResourceNotAvailableError

\* C12: in a bounded Pool, as long as no resource was released each of the
\* first capacity requests is granted its permit in the getResource call and
\* never gets the not-available failure; a request issued when no permit is
\* free (as is the case while capacity resources are held) is granted only by
\* a step that releases a resource, and gets a resource only once granted.
C12_ThirdWaitsForRelease ==
    /\ [](IsBounded =>
            /\ \A id \in Ids :
                    /\ (id <= capacity /\ releases = 0) =>
                            /\ requests[id].avail > 0
                            /\ Granted(id)
                            /\ ~NotAvailable(id)
                    /\ Got(id) => Granted(id)
                    /\ (requests[id].avail = 0 /\ Got(id)) => releases > 0
            /\ (unpaired = 0 /\ Cardinality(held) = capacity) =>
                    available(Sem) = 0)
    /\ [][IsBounded =>
            \A id \in Ids' :
                (/\ requests'[id].avail = 0
                 /\ Granted(id)'
                 /\ ~(id \in Ids /\ Granted(id))) =>
                    releases' = releases + 1]_vars

\* C12 witness: capacity 2, the first two requests got their resources
\* before any release, the third was issued while both were held and got
\* its resource after a release.
C12_Witness ==
    /\ IsBounded
    /\ capacity = 2
    /\ unpaired = 0
    /\ Len(requests) = 3
    /\ requests[3].avail = 0
    /\ \A id \in Ids : Got(id)
    /\ releases = 1

\* C13: in a bounded Pool with a finite timeout, when the timer of a request
\* that is still waiting fires, the request leaves the queue and the
\* not-available failure is scheduled for it; a request that timed out is
\* never granted, never reaches the provider, never gets a resource, and its
\* callback gets the not-available failure, once, whatever is released later.
C13_TimedOutRequestFails ==
    /\ [][\A id \in Ids :
            (IsBounded /\ id \in Waiting /\ TimerFire(id)) =>
                /\ poolTimeout # Infinity
                /\ requests[id].avail = 0
                /\ TimedOut(id)'
                /\ id \notin Waiting'
                /\ immediates' = Append(immediates,
                        [callback |-> id, err |-> ResourceNotAvailableError,
                         value |-> Undefined])]_vars
    /\ [](IsBounded =>
            \A id \in Ids :
                TimedOut(id) =>
                    /\ ~Granted(id)
                    /\ ~Got(id)
                    /\ id \notin providerCalls
                    /\ Len(delivered[id]) <= 1
                    /\ Pending(id) = {} => NotAvailable(id)
                    /\ \A h \in held : h.request # id)

\* C13 witness: capacity 1, the second request waited and timed out, its
\* callback got the failure, and the holder released afterwards: the
\* resource is in the buffer and was not delivered.
C13_Witness ==
    /\ IsBounded
    /\ capacity = 1
    /\ unpaired = 0
    /\ Len(requests) = 2
    /\ TimedOut(2)
    /\ NotAvailable(2)
    /\ releases = 1
    /\ count = 1
    /\ immediates = <<>>

\* the resource passed to the callback of the request, when there is one
GotResource(id) ==
    {delivered[id][i].value :
        i \in {j \in 1..Len(delivered[id]) : delivered[id][j].err = Null}}

\* C14 as stated: with correct use, a request that found no permit free
\* never reaches the provider.  Violated: capacity 2, request 1 holds a
\* resource, request 2 is granted with its callback pending, request 3
\* waits; the release grants 3, the callback of 2 reads the released
\* resource and the callback of 3 finds the buffer empty.
C14_WaiterNeverTriggersProvider ==
    \A id \in Ids :
        (IsBounded /\ unpaired = 0 /\ requests[id].avail = 0) =>
            id \notin providerCalls

\* C14 amended: releaseResource writes the resource at the tail of the
\* buffer in the step that releases the permit, so the buffer is readable
\* when a waiting request is granted by that step; the grant callback of a
\* request reads the head of the buffer when the buffer is readable and
\* calls the provider otherwise, which happens to a granted waiter when a
\* grant callback scheduled before its own has emptied the buffer; in a Pool
\* of capacity 1 used correctly no such callback exists and a granted
\* waiter always reads the released resource.
C14_RecycledUnlessTakenBefore ==
    /\ [][IsBounded =>
            /\ releases' = releases + 1 =>
                    /\ count' = count + 1
                    /\ tail' = increment(tail, capacity)
                    /\ \A h \in held \ held' : buffer'[tail] = h.resource
            /\ \A id \in Ids :
                    (id \in Waiting /\ Granted(id)') =>
                        /\ releases' = releases + 1
                        /\ count' >= 1
                        /\ Pending(id)' # {}
            /\ (/\ immediates # <<>>
                /\ immediates' = Tail(immediates)
                /\ Head(immediates).err = Null) =>
                    \A id \in {Head(immediates).callback} :
                        IF count > 0
                        THEN /\ GotResource(id)' = {buffer[head]}
                             /\ id \notin providerCalls'
                             /\ count' = count - 1
                        ELSE /\ id \in providerCalls'
                             /\ GotResource(id)' = {}]_vars
    /\ []((IsBounded /\ unpaired = 0 /\ capacity = 1) =>
            /\ \A i \in 1..Len(immediates) :
                    (/\ immediates[i].err = Null
                     /\ requests[immediates[i].callback].avail = 0) =>
                        count > 0
            /\ \A id \in Ids :
                    requests[id].avail = 0 =>
                        id \notin providerCalls /\ ~ProviderFailed(id))

\* C14 witness: capacity 1, the second request waited, was granted by the
\* release of the first resource and received that resource.
C14_Witness ==
    /\ IsBounded
    /\ capacity = 1
    /\ unpaired = 0
    /\ Len(requests) = 2
    /\ requests[2].avail = 0
    /\ Granted(2)
    /\ GotResource(2) = {Resource(1)}
    /\ created = 1

\* C15: in a bounded Pool, as long as no resource was released while it was
\* in the buffer already, no two holders hold the same resource, no held
\* resource is in the buffer, no resource is in the buffer twice, and a
\* callback is never given a resource that is held at that moment.
C15_NoDoubleGrant ==
    /\ []((IsBounded /\ doubled = 0) =>
            /\ \A h1, h2 \in held : h1.resource = h2.resource => h1 = h2
            /\ \A h \in held : ~InBuffer(h.resource)
            /\ \A i, j \in Live : buffer[i] = buffer[j] => i = j)
    /\ [][(IsBounded /\ doubled' = 0) =>
            \A h \in held' \ held :
                \A g \in held : g.resource # h.resource]_vars

\* C15 witness: capacity 2, the resource request 1 got and released is held
\* by a later request while another request holds the other resource.
C15_Witness ==
    /\ IsBounded
    /\ capacity = 2
    /\ doubled = 0
    /\ unpaired = 0
    /\ Cardinality(held) = 2
    /\ \E h \in held :
            /\ h.request # 1
            /\ GotResource(1) = {h.resource}
    /\ created = 2

\* acquire was called for the request with a finite timeout (0 included)
FiniteWait(id) ==
    IF id \in Ids THEN requests[id].timeout # Infinity ELSE FALSE

\* acquire was called for the request with no timeout, or with Infinity
UnboundedWait(id) ==
    IF id \in Ids THEN requests[id].timeout = Infinity ELSE FALSE

\* the callback of the request was invoked
Called(id) == IF id \in Ids THEN invoked[id] # <<>> ELSE FALSE

\* the request was granted and its callback was invoked with the grant
GrantedAndCalled(id) ==
    IF id \in Ids THEN Granted(id) /\ GrantCalled(id) ELSE FALSE

\* every holder of a grant calls release in the end
EveryPermitReleased == \A id \in 1..MaxRequests : WF_vars(Release(id))

\* C16: with callbacks and timers scheduled fairly, the callback of every
\* acquire with a finite timeout is eventually invoked, whether or not any
\* holder ever releases; and if every holder of a grant releases it in the
\* end, every acquire with an unbounded wait is eventually granted and its
\* callback invoked with the grant.
C16_NoWaiterLeaked ==
    /\ \A id \in 1..MaxRequests : FiniteWait(id) ~> Called(id)
    /\ EveryPermitReleased =>
            \A id \in 1..MaxRequests :
                UnboundedWait(id) ~> GrantedAndCalled(id)

\* C16 witness: total 1, a request with an unbounded wait and a request with
\* a finite timeout both found no permit free; the first was granted by a
\* release and the second got the not-available failure from its timer.
C16_Witness ==
    /\ total = 1
    /\ unpaired = 0
    /\ \E a, b \in Ids :
            /\ requests[a].avail = 0
            /\ requests[a].timeout = Infinity
            /\ GrantCalled(a)
            /\ requests[b].avail = 0
            /\ requests[b].timeout = FiniteTimeout
            /\ TimedOut(b)
            /\ FailCalled(b)

\* C17: in a bounded Pool to which only resources obtained from getResource
\* are released, each at most once, no buffer error is ever thrown: the
\* buffer has a free slot whenever a resource is held, so the write of
\* every releaseResource succeeds, and the count stays within 0..capacity,
\* the grant path reading only a readable buffer.
C17_NoBufferErrors ==
    /\ []((IsBounded /\ unpaired = 0) =>
            /\ thrown = <<>>
            /\ held # {} => canWrite(RB)
            /\ count >= 0
            /\ count <= capacity)
    /\ [][(IsBounded /\ unpaired' = 0) =>
            /\ count' < count => canRead(RB)
            /\ held' \subseteq held /\ held' # held =>
                    /\ count' = count + 1
                    /\ releases' = releases + 1]_vars

\* C17 witness: capacity 2 with correct use; a resource was released, read
\* again and released again, both resources are back in the buffer, which
\* is full, and nothing was thrown.
C17_Witness ==
    /\ IsBounded
    /\ capacity = 2
    /\ unpaired = 0
    /\ count = 2
    /\ releases = 3
    /\ created = 2
    /\ held = {}
    /\ thrown = <<>>

\* C18 as stated: no call of releaseResource in bounded mode fails.
\* Violated: capacity 1, request 1 holds its resource, a foreign object is
\* released and fills the buffer, and the release of the held resource
\* throws BufferIsFullError before the permit is released.
C18_ReleaseNeverThrows == IsBounded => thrown = <<>>

\* C18 amended: a call of releaseResource in bounded mode that finds a free
\* slot stores the resource at the tail of the buffer and releases one
\* permit (the permits granted to waiters by the call are acquired again);
\* a call that finds the buffer full throws BufferIsFullError and changes
\* neither the buffer nor the semaphore; with correct use the buffer is
\* never full at a call.
C18_ReleaseStoresAndReleases ==
    [][(/\ IsBounded
        /\ (held' \subseteq held /\ held' # held) \/ unpaired' = unpaired + 1) =>
            /\ unpaired' = 0 => canWrite(RB)
            /\ IF canWrite(RB)
               THEN /\ count' = count + 1
                    /\ tail' = increment(tail, capacity)
                    /\ head' = head
                    /\ \A h \in held \ held' : buffer'[tail] = h.resource
                    /\ \A i \in DOMAIN buffer :
                            i # tail => buffer'[i] = buffer[i]
                    /\ releases' = releases + 1
                    /\ acquired' = acquired - 1
                                     + Cardinality(Waiting \ Waiting')
                    /\ thrown' = thrown
               ELSE /\ thrown' = Append(thrown, BufferIsFullError)
                    /\ UNCHANGED <<buffer, head, tail, count, acquired,
                                   waitingList, immediates, releases>>]_vars

\* C18 witness: capacity 2 with correct use; both resources were released,
\* each is in the buffer, every permit is free and nothing was thrown.
C18_Witness ==
    /\ IsBounded
    /\ capacity = 2
    /\ unpaired = 0
    /\ Len(requests) = 2
    /\ releases = 2
    /\ count = 2
    /\ acquired = 0
    /\ InBuffer(Resource(1)) /\ InBuffer(Resource(2))
    /\ thrown = <<>>

\* C19: in a Pool constructed with timeout 0, a request that finds no
\* permit free is not queued and gets no timer.  Violated: the constructor
\* replaces the timeout 0 by the default of 30 seconds, so the request is
\* put on the waiting list with a timer.
C19_ZeroTimeoutDoesNotWait ==
    \A id \in Ids :
        (IsBounded /\ options.timeout = 0 /\ requests[id].avail = 0) =>
            /\ ~Queued(id)
            /\ id \notin timers

\* C20: a Pool constructed with capacity 0 or Infinity has no buffer and no
\* semaphore at work: it is not bounded, nothing is stored and no permit is
\* ever acquired.  Violated in the state after construction: the
\* constructor replaces the capacity 0 by the default of 5 and a buffer of
\* 5 slots is created.
C20_NoPoolMode ==
    options.capacity \in {0, Infinity} =>
        /\ ~IsBounded
        /\ DOMAIN buffer = {}
        /\ count = 0
        /\ acquired = 0
        /\ waitingList = <<>>
        /\ releases = 0
        /\ \A id \in Ids : dequeued[id] = <<>> /\ ~NotAvailable(id)

\* C21: when the provider calls back with its error for a request of a
\* bounded Pool, the callback of the request gets that error and no
\* resource, and the step changes neither the semaphore nor the buffer; with
\* correct use the permits acquired are those of the held resources, of the
\* provider calls and grant callbacks under way, and of the requests the
\* provider failed, which are never given back.
C21_PermitKeptOnProviderFailure ==
    /\ [][\A id \in Ids :
            (/\ IsBounded
             /\ id \in providerCalls
             /\ id \notin providerCalls'
             /\ created' = created) =>
                /\ delivered'[id] = Append(delivered[id],
                        [err |-> ProviderError, value |-> Undefined])
                /\ acquired' = acquired
                /\ held' = held
                /\ UNCHANGED <<buffer, head, tail, count, waitingList,
                               immediates, timers, releases>>]_vars
    /\ []((IsBounded /\ unpaired = 0) =>
            acquired = Cardinality(held) + Cardinality(providerCalls)
                        + Cardinality(PendingGrants)
                        + Cardinality({id \in Ids : ProviderFailed(id)}))

\* C21 witness: capacity 1, the provider failed the first request; nothing
\* is held or under way, the buffer is empty and the permit is still
\* acquired, with the second request waiting for it.
C21_Witness ==
    /\ IsBounded
    /\ capacity = 1
    /\ unpaired = 0
    /\ Len(requests) = 2
    /\ ProviderFailed(1)
    /\ held = {}
    /\ providerCalls = {}
    /\ immediates = <<>>
    /\ count = 0
    /\ acquired = 1
    /\ 2 \in Waiting

\* C22: the RingBuffer is FIFO: the items read so far, followed by the
\* items still in the buffer in reading order, are the items written, in the
\* order of writing; count is the number of items written and not yet read.
C22_RingBufferFifo ==
    Constructed =>
        /\ readOut \o Contents(RB) = written
        /\ count = Len(written) - Len(readOut)

\* C22 witness: capacity 3, four different-looking items were written and
\* all were read back, so the write and read positions wrapped around, and
\* count is 0 again.
C22_Witness ==
    /\ args.capacity = 3
    /\ written = <<"a", "b", "b", "a">>
    /\ readOut = written
    /\ count = 0
    /\ head = 1
    /\ tail = 1

\* C23: write on a full RingBuffer throws BufferIsFullError and read on an
\* empty one throws BufferIsEmptyError; a call that throws leaves the
\* buffer, head, tail and count as they were, and nothing is thrown by a
\* write that finds a free slot or by a read that finds an item.
C23_ThrowsWithoutMutation ==
    [][Constructed =>
        /\ \A data \in Items :
                (Write(data) /\ count = rbCapacity(RB)) =>
                    /\ thrown' = Append(thrown, BufferIsFullError)
                    /\ UNCHANGED <<buffer, head, tail, count, written,
                                   readOut>>
        /\ (Read /\ count = 0) =>
                /\ thrown' = Append(thrown, BufferIsEmptyError)
                /\ UNCHANGED <<buffer, head, tail, count, written, readOut>>
        /\ thrown' # thrown =>
                /\ UNCHANGED <<buffer, head, tail, count>>
                /\ count = 0 \/ count = rbCapacity(RB)
        /\ (count' # count) => thrown' = thrown]_vars

\* C23 witness: capacity 2; a read of the empty buffer threw, then two
\* items were written and a third write threw; the two items are in the
\* buffer.
C23_Witness ==
    /\ args.capacity = 2
    /\ thrown = <<BufferIsEmptyError, BufferIsFullError>>
    /\ written = <<"a", "b">>
    /\ Contents(RB) = written
    /\ count = 2
    /\ head = 0
    /\ tail = 0

\* C24: in every state of a constructed RingBuffer, count is within
\* 0..capacity, capacity is the constructor's argument, available is
\* capacity - count, canWrite is count < capacity, canRead is count > 0, and
\* isFull and isEmpty are the negations of canWrite and canRead.
C24_RingBufferQueries ==
    Constructed =>
        /\ 0 <= count /\ count <= args.capacity
        /\ rbCapacity(RB) = args.capacity
        /\ rbAvailable(RB) = args.capacity - count
        /\ canWrite(RB) <=> count < args.capacity
        /\ canRead(RB) <=> count > 0
        /\ isFull(RB) <=> ~canWrite(RB)
        /\ isEmpty(RB) <=> ~canRead(RB)
        /\ isFull(RB) <=> count = args.capacity
        /\ isEmpty(RB) <=> count = 0

\* C24 witness: a buffer of capacity 3 that was written, read and filled up
\* again: it is full, nothing is available, it can be read and not written.
C24_Witness ==
    /\ args.capacity = 3
    /\ Len(readOut) = 1
    /\ count = 3
    /\ rbAvailable(RB) = 0
    /\ isFull(RB) /\ ~canWrite(RB)
    /\ canRead(RB) /\ ~isEmpty(RB)

\* the exceptions thrown so far
Thrown == {thrown[i] : i \in 1..Len(thrown)}

\* C25 as stated: construction fails, leaving no instance, for a capacity
\* below 1, an infinite capacity and a total below 1, and succeeds for
\* every finite capacity of 1 or more.  Violated: new RingBuffer(1.5) and
\* new RingBuffer(2 ** 32) pass the test of the constructor and
\* new Array(capacity) throws a RangeError.
C25_FiniteCapacitySucceeds ==
    /\ (args.capacity < 1 \/ args.capacity = Infinity) =>
            /\ Thrown \cap {RingBufferCapacityError, InvalidArrayLength} # {}
            /\ DOMAIN buffer = {}
    /\ (args.capacity >= 1 /\ args.capacity < Infinity) =>
            /\ Thrown \cap {RingBufferCapacityError, InvalidArrayLength} = {}
            /\ Cardinality(DOMAIN buffer) = args.capacity
    /\ args.total < 1 =>
            /\ SemaphoreTotalError \in Thrown
            /\ total = 0
    /\ args.total >= 1 =>
            /\ SemaphoreTotalError \notin Thrown
            /\ total = args.total

\* C25: new RingBuffer(capacity) throws its Error and leaves no instance
\* when capacity < 1 or capacity is Infinity; it throws a RangeError and
\* leaves no instance when capacity is finite, at least 1 and not an
\* integer or above 2^32 - 1; for an integer capacity of 1..2^32 - 1 it
\* gives an empty buffer of that capacity.  new Semaphore(total) throws
\* and leaves no instance when total < 1, and otherwise gives a semaphore
\* of that total with nothing acquired at first.
C25_ConstructionBoundary ==
    /\ (args.capacity < 1 \/ args.capacity = Infinity) =>
            /\ RingBufferCapacityError \in Thrown
            /\ InvalidArrayLength \notin Thrown
            /\ DOMAIN buffer = {}
            /\ written = <<>>
    /\ (/\ args.capacity >= 1
        /\ args.capacity < Infinity
        /\ (args.tenths # 0 \/ args.capacity >= TwoToThe32)) =>
            /\ InvalidArrayLength \in Thrown
            /\ RingBufferCapacityError \notin Thrown
            /\ DOMAIN buffer = {}
            /\ written = <<>>
    /\ (/\ args.capacity >= 1
        /\ args.capacity < TwoToThe32
        /\ args.tenths = 0) =>
            /\ RingBufferCapacityError \notin Thrown
            /\ InvalidArrayLength \notin Thrown
            /\ DOMAIN buffer = 0..(args.capacity - 1)
            /\ written = <<>> => (count = 0 /\ head = 0 /\ tail = 0)
    /\ args.total < 1 =>
            /\ SemaphoreTotalError \in Thrown
            /\ total = 0
    /\ args.total >= 1 =>
            /\ SemaphoreTotalError \notin Thrown
            /\ total = args.total
            /\ acquired = 0

\* C25 witness: new RingBuffer(1.5) threw the RangeError of new Array and
\* new Semaphore(0) threw; neither left an instance.
C25_Witness ==
    /\ args = [capacity |-> 1, tenths |-> 5, total |-> 0]
    /\ thrown = <<InvalidArrayLength, SemaphoreTotalError>>
    /\ DOMAIN buffer = {}
    /\ total = 0

\* C26: no timer of a granted waiter is pending.  Violated: total 1, the
\* first caller is granted, the second waits with a finite timeout and is
\* granted by the release of the first; release() does not call
\* clearTimeout and the timer of the second caller is still armed.
C26_NoTimerAfterGrant ==
    \A id \in Ids : Granted(id) => id \notin timers

\* the states of the semaphore s after one more call of acquire or release,
\* or after one of its timers
SemOps(s) ==
    LET id == Len(s.dequeued) + 1
        s0 == [s EXCEPT !.invoked = Append(@, <<>>),
                        !.dequeued = Append(@, <<>>)]
    IN (IF id <= MaxRequests
        THEN {acquire(s0, id, t, Undefined) : t \in TimeoutArgs}
        ELSE {})
       \cup {release(s)}
       \cup {timerFired(s, i) : i \in s.timers}

\* the states of the semaphore after at most k such steps from those of S
RECURSIVE ReachableWithin(_, _)
ReachableWithin(S, k) ==
    IF k = 0 THEN S
    ELSE ReachableWithin(S \cup UNION {SemOps(s) : s \in S}, k - 1)

\* a call of release() in the state s grants more than one waiter
Cascades(s) == Len(s.waitingList) - Len(release(s).waitingList) >= 2

\* the semaphore that new Semaphore(t) constructs
NewSemaphore(t) ==
    [total |-> t, acquired |-> 0, waitingList |-> <<>>, timers |-> {},
     immediates |-> <<>>, invoked |-> <<>>, dequeued |-> <<>>]

\* C27 as stated: some sequence of acquire, release (paired or not) and
\* timer steps, from the present state of the semaphore or from a new
\* semaphore of some total, leads to a state in which one release() grants
\* more than one waiter.  Violated in the state after construction: for no
\* total up to MaxTotal does a sequence of up to 2 * MaxRequests steps lead
\* there.
C27_ReleaseCanCascade ==
    \E s \in ReachableWithin(
                {Sem} \cup {NewSemaphore(t) : t \in 1..MaxTotal},
                2 * MaxRequests) :
        Cascades(s)

\* C27 amended: a call of release() grants the waiter at the head of the
\* queue and nobody else, leaving acquired as it was, and when nobody is
\* waiting it only decrements acquired; the loop body runs at most once.
C27_ReleaseGrantsAtMostOne ==
    [][releases' = releases + 1 =>
        IF waitingList = <<>>
        THEN /\ acquired' = acquired - 1
             /\ UNCHANGED <<waitingList, immediates, dequeued>>
        ELSE /\ acquired' = acquired
             /\ waitingList' = Tail(waitingList)
             /\ Len(immediates') = Len(immediates) + 1
             /\ \A id \in Ids :
                    (Granted(id)' /\ ~Granted(id)) =>
                        id = Head(waitingList).id]_vars

\* C27 witness: total 2, both permits were acquired, a third caller waited
\* and two releases were made: the first granted the waiter, the second
\* found nobody waiting and left a permit free.
C27_Witness ==
    /\ total = 2
    /\ Len(requests) = 3
    /\ requests[3].avail = 0
    /\ Granted(3)
    /\ releases = 2
    /\ unpaired = 0
    /\ waitingList = <<>>
    /\ acquired = 1

\* C28: whenever callers are waiting no permit is available: every permit
\* is acquired; and the number of available permits is never negative.
C28_NoWaiterWhilePermitFree ==
    /\ waitingList # <<>> => available(Sem) <= 0
    /\ waitingList # <<>> => acquired = total
    /\ acquired <= total

\* C28 witness: two callers waited, a release granted the first of them,
\* the other is still waiting and no permit is available.
C28_Witness ==
    /\ waitingList # <<>>
    /\ available(Sem) = 0
    /\ releases = 1
    /\ \E id \in Ids : requests[id].avail = 0 /\ Granted(id)

\* C29: acquired is the number of grants made minus the number of
\* release() calls; when every release is paired with a grant it is the
\* number of granted requests that have not released and lies within
\* 0..total; release() checks nothing: a release not paired with a grant
\* decrements acquired too, below 0 when nothing is acquired, unless a
\* waiter takes the permit at once.
C29_AcquiredCountsGrants ==
    /\ [](acquired = Cardinality({id \in Ids : Granted(id)}) - releases)
    /\ [](unpaired = 0 =>
            /\ 0 <= acquired /\ acquired <= total
            /\ acquired = Cardinality(holders) + Cardinality(PendingGrants))
    /\ [][unpaired' = unpaired + 1 =>
            /\ releases' = releases + 1
            /\ acquired' = IF waitingList = <<>> THEN acquired - 1
                           ELSE acquired]_vars

\* C29 witness: release() was called on a semaphore with nothing acquired:
\* acquired is -1 and one permit more than total is available.
C29_Witness ==
    /\ unpaired = 1
    /\ requests = <<>>
    /\ acquired = 0 - 1
    /\ available(Sem) = total + 1

\* C30: when the timer of a caller that was granted already fires, no
\* callback is scheduled and the waiting list, acquired and the record of
\* who left the queue are unchanged; only the timer is gone.
C30_LateTimerIsNoOp ==
    [][\A id \in Ids :
        (Granted(id) /\ id \in timers /\ id \notin timers') =>
            /\ timers' = timers \ {id}
            /\ UNCHANGED <<waitingList, acquired, immediates, invoked,
                           dequeued, total>>]_vars

\* C30 witness: a caller waited with a finite timeout, was granted by a
\* release, its callback ran with the grant, and its timer has fired since:
\* the callback was not invoked again and nothing is scheduled.
C30_Witness ==
    \E id \in Ids :
        /\ requests[id].avail = 0
        /\ requests[id].timeout = FiniteTimeout
        /\ Granted(id)
        /\ id \notin timers
        /\ Len(invoked[id]) = 1
        /\ GrantCalled(id)
        /\ immediates = <<>>

\* the waiting list without the caller id, the others in their order
Without(list, id) == SelectSeq(list, LAMBDA c : c.id # id)

\* C31: when the timer of a waiting caller fires, that caller alone leaves
\* the waiting list, the others keeping their order; acquired and total, and
\* so available, are unchanged; and the one callback scheduled is the
\* failure of that caller.
C31_TimeoutRemovesOnlyItsWaiter ==
    [][\A id \in Ids :
        (id \in Waiting /\ id \in timers /\ id \notin timers') =>
            /\ waitingList' = Without(waitingList, id)
            /\ Len(waitingList') = Len(waitingList) - 1
            /\ acquired' = acquired
            /\ total' = total
            /\ available(Sem)' = available(Sem)
            /\ dequeued' = [dequeued EXCEPT ![id] = Append(@, "timeout")]
            /\ immediates' = Append(immediates,
                    [callback |-> id, err |-> ResourceNotAvailableError,
                     value |-> requests[id].context])]_vars

\* C31 witness: total 1, three callers waited behind the holder; the one in
\* the middle timed out, and the two others are still waiting in the order
\* of their arrival with the permit still acquired.
C31_Witness ==
    /\ total = 1
    /\ Len(requests) = 4
    /\ TimedOut(3)
    /\ Len(waitingList) = 2
    /\ waitingList[1].id = 2
    /\ waitingList[2].id = 4
    /\ acquired = 1
    /\ releases = 0

\* C32: in every state of a constructed RingBuffer head and tail are
\* indices of the array and tail = (head + count) mod capacity; a write
\* stores into a slot that holds no unread item and leaves the unread items
\* alone; a read returns the item of a slot that holds an unread item, which
\* is not to be read again afterwards.
C32_HeadTailCount ==
    /\ [](Constructed =>
            /\ head \in 0..(args.capacity - 1)
            /\ tail \in 0..(args.capacity - 1)
            /\ tail = (head + count) % args.capacity
            /\ Cardinality(Live) = count)
    /\ [][Constructed =>
            /\ count' = count + 1 =>
                    /\ tail \notin Live
                    /\ Live' = Live \cup {tail}
                    /\ \A i \in Live : buffer'[i] = buffer[i]
                    /\ buffer'[tail] = written'[Len(written')]
            /\ count' = count - 1 =>
                    /\ head \in Live
                    /\ Live' = Live \ {head}
                    /\ readOut' = Append(readOut, buffer[head])
                    /\ buffer' = buffer]_vars

\* C32 witness: capacity 3, four items written and two read: head is at
\* the last slot, the two unread items lie across the end of the array and
\* tail has wrapped around to slot 1.
C32_Witness ==
    /\ args.capacity = 3
    /\ Len(written) = 4
    /\ Len(readOut) = 2
    /\ head = 2
    /\ tail = 1
    /\ count = 2
    /\ Live = {2, 0}

\* the requests whose provider call failed
Failed == {id \in Ids : ProviderFailed(id)}

\* every permit of the bounded Pool was consumed by a failed provider call
AllFailed == IsBounded /\ Cardinality(Failed) = capacity

\* C33 as stated: once capacity provider calls have failed, every permit
\* stays acquired and no grant is under way or held, whatever is done next.
\* Violated: capacity 1, the provider fails the first request, and user
\* code calls releaseResource with an object it never got from the Pool:
\* _release gives the permit back, and the next request is granted.
C33_FailedPermitsNeverRecovered ==
    AllFailed =>
        /\ acquired = capacity
        /\ PendingGrants = {}
        /\ held = {}

\* C33 amended: as long as only resources obtained from getResource are
\* released, once capacity provider calls have failed every permit stays
\* acquired with nothing held or under way, no request is granted any more,
\* a request that is not granted is waiting or, the timeout being finite,
\* has timed out, and none of them gets a resource.
C33_NoGrantAfterAllFailed ==
    /\ []((AllFailed /\ unpaired = 0) =>
            /\ acquired = capacity
            /\ PendingGrants = {}
            /\ held = {}
            /\ providerCalls = {}
            /\ count = 0
            /\ \A id \in Ids \ Failed :
                    /\ ~Granted(id)
                    /\ ~Got(id)
                    /\ id \in Waiting \/ TimedOut(id)
                    /\ poolTimeout = Infinity => id \in Waiting)
    /\ [][(AllFailed /\ unpaired' = 0) =>
            /\ AllFailed'
            /\ \A id \in Ids' : Granted(id)' => id \in Failed]_vars

\* C33 witness: capacity 1 with a finite timeout; the provider failed the
\* first request, the second waited, timed out and got the not-available
\* failure, and the third is waiting.
C33_Witness ==
    /\ AllFailed
    /\ capacity = 1
    /\ unpaired = 0
    /\ Len(requests) = 3
    /\ NotAvailable(2)
    /\ 3 \in Waiting
    /\ acquired = 1

====
